---- MODULE Spec2Model ----
(***************************************************************************)
(* Graph Works (graph_works.cpp): Prim's minimum spanning tree over an     *)
(* edge list, the reverse colexicographic combination enumerator           *)
(* (make_combinations), and the graph generator built on the same loop     *)
(* (make_graphs, write_graph, graph_generation).                           *)
(*                                                                         *)
(* C arrays are sequences: the C element a[i] is the sequence element      *)
(* a[i+1].  A read past the end of a variable-length array reads the       *)
(* stack cells that follow it (stack), whose content is indeterminate; a   *)
(* write past the end, or a read of an element of an empty vector, ends    *)
(* the run in pc = "undefined".                                            *)
(***************************************************************************)
EXTENDS Integers, Sequences, FiniteSets, TLC

VARIABLES
    pc,                 \* position of the running function
    fn,                 \* the function main dispatched to
    stack,              \* the int cells that follow the VLA on the stack
    k,                  \* make_combinations / make_graphs: "Target object"
    entered,            \* the do-loop of the enumerator has been entered
    oob,                \* the places that have read past the end of the VLA
    \* make_combinations
    input_count, combination_count, indices, cout, err,
    \* make_graphs / write_graph
    VERTEX_COUNT, EDGE_COUNT, ordinals, outfile, passed, notice,
    \* graph_generation
    n, v, e,
    \* spanning_tree / create_graph / min_incident
    input, vertexCount, G, T, vT, totalWeight, min_incident_index, boundary

mcVars == <<input_count, combination_count, indices, cout>>
mgVars == <<VERTEX_COUNT, EDGE_COUNT, ordinals, outfile, passed, notice>>
ggVars == <<n, v, e>>
stVars == <<input, vertexCount, G, T, vT, totalWeight, min_incident_index,
            boundary>>
enVars == <<stack, k, entered, oob, err>>
vars == <<pc, fn, enVars, mcVars, mgVars, ggVars, stVars>>

(***************************************************************************)
(* Bounds of the model.                                                    *)
(***************************************************************************)
MaxInput == 7          \* make_combinations: input_count in 0..MaxInput
MaxCombination == 5    \* make_combinations: combination_count in 0..MaxCombination
MaxVertex == 3         \* make_graphs: VERTEX_COUNT in 2..MaxVertex
StackCells == 2        \* the cells modelled after the end of a VLA
MaxGenerate == 3       \* graph_generation: n in 3..MaxGenerate
MaxVertexCount == 3    \* spanning_tree: vertexCount in 1..MaxVertexCount
MaxEdges == 3          \* spanning_tree: non-zero entries read from input.txt
MaxWeight == 1         \* spanning_tree: small weights are 1..MaxWeight
MaxIterations == 6     \* cap on the iterations of the Prim loop

\* numeric_limits<int>::max()
INT_MAX == 2147483647

(***************************************************************************)
(* Memory.                                                                 *)
(***************************************************************************)
\* The content an indeterminate cell can have when it is compared with a
\* number in 0..slots-1: one of those numbers, or a number that is none.
Garbage(slots) == {-1} \cup (0 .. slots - 1)

\* stack[c] is <<>> while cell c has not been read, and <<x>> once it has
\* been read as x: a cell keeps the content it is first found to have.
Unread == [c \in 1 .. StackCells |-> <<>>]

NoFill == [c \in 1 .. StackCells |-> -1]

InBounds(arr, i) == i \in 0 .. Len(arr) - 1

\* A read of arr[i] the model can answer: an element, or a modelled cell
\* after the end of the array.
Modelled(arr, i) == i \in 0 .. Len(arr) + StackCells - 1

\* The contents the cells can have, given the reads `reads` of arr: the
\* cells are looked at only if a read is past the end.
Fills(arr, reads, slots) ==
    IF \A i \in reads : InBounds(arr, i)
       THEN {NoFill}
       ELSE {st \in [1 .. StackCells -> Garbage(slots)] :
                \A c \in 1 .. StackCells :
                    stack[c] = <<>> \/ stack[c] = <<st[c]>>}

\* The stack once the reads `reads` of arr have found the contents st.
Remember(arr, reads, st) ==
    [c \in 1 .. StackCells |->
        IF c + Len(arr) - 1 \in reads THEN <<st[c]>> ELSE stack[c]]

\* arr[i] as the machine reads it, the cells holding st.
Load(arr, i, st) ==
    IF InBounds(arr, i) THEN arr[i + 1] ELSE st[i - Len(arr) + 1]

Store(arr, i, x) == [arr EXCEPT ![i + 1] = x]

\* The places that have read past the end, with a read of arr[i] at `site`.
Reading(arr, i, site) == IF InBounds(arr, i) THEN oob ELSE oob \cup {site}

(***************************************************************************)
(* triangle_number, print_permu.                                           *)
(***************************************************************************)
triangle_number(x) == (x * (x + 1)) \div 2

\* print_permu: nothing is printed for count = 0.
print_permu(out, arr, count) == IF count = 0 THEN out ELSE Append(out, arr)

\* The array filled from its first element on, without the reversal.
InitialIndicesReversed(total, count) == [j \in 1 .. count |-> total - j]

\* "Initialize indices for reverse colexicographical order":
\* arr[count-1-i] = total-i-1 for i in 0..count-1.
InitialIndices(total, count) == [j \in 1 .. count |-> total - count + j - 1]

\* The children brought up one place short.
BringUpShort(arr, kk) ==
    [j \in 1 .. Len(arr) |->
        IF j - 1 < kk THEN arr[kk + 1] - (kk - (j - 1)) - 1 ELSE arr[j]]

\* "Bring up all the children": arr[i] = arr[kk]-(kk-i) for i < kk.
BringUp(arr, kk) ==
    [j \in 1 .. Len(arr) |->
        IF j - 1 < kk THEN arr[kk + 1] - (kk - (j - 1)) ELSE arr[j]]

(***************************************************************************)
(* make_combinations.                                                      *)
(***************************************************************************)
\* The size check of make_combinations.
MC_TooFew(total, count) == total <= count

\* The test of the "bring k back home" loop of make_combinations.
MC_NotHome(x, kk) == x # kk

\* The test of the "find the next k" loop, k already incremented.
StillHome(x, kk, count) == x = kk /\ kk # count

\* The test that ends the do-loop of the enumerator.
LoopAgain(arr, kk, count) == kk # count - 1 \/ arr[kk + 1] # kk

MC_Check ==
    /\ pc = "mc_check"
    /\ IF MC_TooFew(input_count, combination_count)
          THEN /\ err' = TRUE
               /\ pc' = "done"
          ELSE /\ err' = err
               /\ pc' = "mc_init"
    /\ UNCHANGED <<fn, stack, k, entered, oob, mcVars, mgVars, ggVars, stVars>>

MC_Init ==
    /\ pc = "mc_init"
    /\ indices' = InitialIndices(input_count, combination_count)
    /\ cout' = print_permu(cout, indices', combination_count)
    /\ pc' = "mc_home"
    /\ UNCHANGED <<fn, enVars, input_count, combination_count, mgVars, ggVars,
                   stVars>>

\* One test of "while ( indices[k] != k )", with its body or what follows it.
MC_Home ==
    /\ pc = "mc_home"
    /\ entered' = TRUE
    /\ oob' = Reading(indices, k, "home")
    /\ IF ~Modelled(indices, k)
          THEN /\ pc' = "undefined"
               /\ UNCHANGED <<stack, indices, cout>>
          ELSE \E st \in Fills(indices, {k}, input_count) :
                  /\ stack' = Remember(indices, {k}, st)
                  /\ IF MC_NotHome(Load(indices, k, st), k)
                        THEN IF InBounds(indices, k)
                                THEN /\ indices' = Store(indices, k,
                                                         indices[k + 1] - 1)
                                     /\ cout' = print_permu(cout, indices',
                                                            combination_count)
                                     /\ pc' = "mc_home"
                                ELSE /\ pc' = "undefined"
                                     /\ UNCHANGED <<indices, cout>>
                        ELSE /\ pc' = IF combination_count = 1
                                         THEN "done" ELSE "mc_scan"
                             /\ UNCHANGED <<indices, cout>>
    /\ UNCHANGED <<fn, k, err, input_count, combination_count, mgVars, ggVars,
                   stVars>>

\* One round of "do k++ while (indices[k] == k && k != combination_count)".
MC_Scan ==
    /\ pc = "mc_scan"
    /\ k' = k + 1
    /\ oob' = Reading(indices, k', "scan")
    /\ IF ~Modelled(indices, k')
          THEN /\ pc' = "undefined"
               /\ stack' = stack
          ELSE \E st \in Fills(indices, {k'}, input_count) :
                  /\ stack' = Remember(indices, {k'}, st)
                  /\ pc' = IF StillHome(Load(indices, k', st), k',
                                        combination_count)
                              THEN "mc_scan" ELSE "mc_move"
    /\ UNCHANGED <<fn, entered, err, mcVars, mgVars, ggVars, stVars>>

\* "Move the k back", the children, the print and the test of the do-loop.
MC_Move ==
    /\ pc = "mc_move"
    /\ IF ~InBounds(indices, k)
          THEN /\ pc' = "undefined"
               /\ UNCHANGED <<k, indices, cout>>
          ELSE LET moved == Store(indices, k, indices[k + 1] - 1)
                   home == moved[k + 1] = k
               IN  /\ indices' = IF home THEN moved ELSE BringUp(moved, k)
                   /\ k' = IF home THEN k ELSE 0
                   /\ cout' = print_permu(cout, indices', combination_count)
                   /\ pc' = IF LoopAgain(indices', k', combination_count)
                               THEN "mc_home" ELSE "done"
    /\ UNCHANGED <<fn, stack, entered, oob, err, input_count,
                   combination_count, mgVars, ggVars, stVars>>

NextComb == MC_Check \/ MC_Init \/ MC_Home \/ MC_Scan \/ MC_Move

\* The values the variables of the other functions have while one runs.
IdleComb ==
    /\ input_count = 0 /\ combination_count = 0 /\ indices = <<>>
    /\ cout = <<>>

IdleGraphs ==
    /\ VERTEX_COUNT = 0 /\ EDGE_COUNT = 0 /\ ordinals = <<>>
    /\ outfile = <<>> /\ passed = <<>> /\ notice = FALSE

IdleGen == n = 0 /\ v = 0 /\ e = 0

IdleTree ==
    /\ input = <<>> /\ vertexCount = 0 /\ G = <<>> /\ T = <<>> /\ vT = <<>>
    /\ totalWeight = 0 /\ min_incident_index = 0 /\ boundary = {}

IdleEnumerator ==
    /\ stack = Unread /\ k = 0 /\ entered = FALSE /\ oob = {} /\ err = FALSE

InitComb ==
    /\ fn = "make_combinations"
    /\ pc = "mc_check"
    /\ input_count \in 0 .. MaxInput
    /\ combination_count \in 0 .. MaxCombination
    /\ indices = <<>>
    /\ cout = <<>>
    /\ IdleEnumerator /\ IdleGraphs /\ IdleGen /\ IdleTree

(***************************************************************************)
(* write_graph.                                                            *)
(***************************************************************************)
\* The cursor k of "Initialize adjacencies" when slot i is looked at:
\* for (i = 0, k = 0; i < EDGES; i++) { ...; if (i == indices[k]) k++; }
RECURSIVE Cursor(_, _, _)
Cursor(arr, i, st) ==
    IF i = 0 THEN 0
    ELSE LET c == Cursor(arr, i - 1, st)
         IN  IF Modelled(arr, c) /\ Load(arr, c, st) = i - 1 THEN c + 1 ELSE c

\* The elements of indices the scan reads.
ScanReads(arr, EDGES, st) == {Cursor(arr, i, st) : i \in 0 .. EDGES - 1}

\* edgeSet[i] = (i == indices[k])
EdgeSet(arr, EDGES, st) ==
    [j \in 1 .. EDGES |->
        LET c == Cursor(arr, j - 1, st)
        IN  Modelled(arr, c) /\ Load(arr, c, st) = j - 1]

\* The value of the counter j of "Write edges to matrix upper triangle"
\* when column kk, row i is reached: the cells with i >= k+1 met before.
Slot(i, kk, VERTEX) ==
    Cardinality({rc \in (0 .. VERTEX - 1) \X (0 .. VERTEX - 1) :
                    /\ rc[1] >= rc[2] + 1
                    /\ rc[2] < kk \/ (rc[2] = kk /\ rc[1] < i)})

Digit(b) == IF b THEN 1 ELSE 0

\* adjMatrix[i][kk] when "outfile << adjMatrix[i][kk]" runs in column kk:
\* just set from edgeSet[j] for i >= kk+1, still 0 on the diagonal, and set
\* through "adjMatrix[k][i] = edgeSet[j]" in column i for i < kk.
Written(edgeSet, i, kk, VERTEX) ==
    IF i >= kk + 1 THEN Digit(edgeSet[Slot(i, kk, VERTEX) + 1])
    ELSE IF i = kk THEN 0
    ELSE Digit(edgeSet[Slot(kk, i, VERTEX) + 1])

\* What one call appends to generated_graphs.txt: the vertex count and one
\* line of digits for each column.
write_graph(arr, VERTEX, st) ==
    LET EDGES == triangle_number(VERTEX - 1)
        edgeSet == EdgeSet(arr, EDGES, st)
    IN  [VERTEX |-> VERTEX,
         lines |-> [c \in 1 .. VERTEX |->
                      [r \in 1 .. VERTEX |->
                          Written(edgeSet, r - 1, c - 1, VERTEX)]]]

\* The call write_graph( ordinals, VERTEX_COUNT ) with `arr` for ordinals;
\* `next` is where make_graphs goes on.
WriteGraph(arr, next) ==
    LET EDGES == triangle_number(VERTEX_COUNT - 1)
    IN  \E st \in Fills(arr, ScanReads(arr, EDGES, NoFill), EDGES) :
           LET reads == ScanReads(arr, EDGES, st)
           IN  /\ passed' = Append(passed, arr)
               /\ stack' = Remember(arr, reads, st)
               /\ oob' = IF \A c \in reads : InBounds(arr, c)
                            THEN oob ELSE oob \cup {"write_graph"}
               /\ IF \A c \in reads : Modelled(arr, c)
                     THEN /\ outfile' = Append(outfile,
                                          write_graph(arr, VERTEX_COUNT, st))
                          /\ pc' = next
                     ELSE /\ outfile' = outfile
                          /\ pc' = "undefined"

(***************************************************************************)
(* make_graphs.                                                            *)
(***************************************************************************)
maxEdgeCount == triangle_number(VERTEX_COUNT - 1)

\* The size check of make_graphs.
MG_TooFew(total, count) == total < count

\* The test of the "bring k back home" loop of make_graphs.
MG_NotHome(x, kk) == x > kk

\* Where control goes when make_graphs returns.
Return == IF fn = "graph_generation" THEN "gg_next" ELSE "done"

MG_Check ==
    /\ pc = "mg_check"
    /\ IF MG_TooFew(maxEdgeCount, EDGE_COUNT)
          THEN /\ err' = TRUE
               /\ pc' = Return
          ELSE /\ err' = err
               /\ pc' = "mg_init"
    /\ UNCHANGED <<fn, stack, k, entered, oob, mcVars, mgVars, ggVars, stVars>>

\* The initial permutation, and "Special case for choose all".
MG_Init ==
    /\ pc = "mg_init"
    /\ ordinals' = InitialIndices(maxEdgeCount, EDGE_COUNT)
    /\ WriteGraph(ordinals',
                  IF maxEdgeCount = EDGE_COUNT THEN Return ELSE "mg_home")
    /\ UNCHANGED <<fn, k, entered, err, VERTEX_COUNT, EDGE_COUNT, notice,
                   mcVars, ggVars, stVars>>

\* One test of "while ( ordinals[k] > k )", with its body or what follows it.
MG_Home ==
    /\ pc = "mg_home"
    /\ entered' = TRUE
    /\ IF ~Modelled(ordinals, k)
          THEN /\ pc' = "undefined"
               /\ oob' = Reading(ordinals, k, "home")
               /\ UNCHANGED <<stack, ordinals, outfile, passed, notice>>
          ELSE IF InBounds(ordinals, k)
          THEN IF MG_NotHome(ordinals[k + 1], k)
                  THEN /\ ordinals' = Store(ordinals, k, ordinals[k + 1] - 1)
                       /\ WriteGraph(ordinals', "mg_home")
                       /\ notice' = notice
                  ELSE /\ IF EDGE_COUNT = 1
                             THEN /\ notice' = TRUE
                                  /\ pc' = Return
                             ELSE /\ notice' = notice
                                  /\ pc' = "mg_scan"
                       /\ UNCHANGED <<stack, oob, ordinals, outfile, passed>>
          ELSE \E st \in Fills(ordinals, {k}, maxEdgeCount) :
                  /\ stack' = Remember(ordinals, {k}, st)
                  /\ oob' = Reading(ordinals, k, "home")
                  /\ IF MG_NotHome(Load(ordinals, k, st), k)
                        THEN /\ pc' = "undefined"
                             /\ notice' = notice
                        ELSE IF EDGE_COUNT = 1
                             THEN /\ notice' = TRUE
                                  /\ pc' = Return
                             ELSE /\ notice' = notice
                                  /\ pc' = "mg_scan"
                  /\ UNCHANGED <<ordinals, outfile, passed>>
    /\ UNCHANGED <<fn, k, err, VERTEX_COUNT, EDGE_COUNT, mcVars, ggVars,
                   stVars>>

\* One round of "do k++ while (ordinals[k] == k && k != EDGE_COUNT )".
MG_Scan ==
    /\ pc = "mg_scan"
    /\ k' = k + 1
    /\ oob' = Reading(ordinals, k', "scan")
    /\ IF ~Modelled(ordinals, k')
          THEN /\ pc' = "undefined"
               /\ stack' = stack
          ELSE \E st \in Fills(ordinals, {k'}, maxEdgeCount) :
                  /\ stack' = Remember(ordinals, {k'}, st)
                  /\ pc' = IF StillHome(Load(ordinals, k', st), k', EDGE_COUNT)
                              THEN "mg_scan" ELSE "mg_move"
    /\ UNCHANGED <<fn, entered, err, mcVars, mgVars, ggVars, stVars>>

\* "Move the k back", the children, the write and the test of the do-loop,
\* with the completion notice when the loop ends.
MG_Move ==
    /\ pc = "mg_move"
    /\ IF ~InBounds(ordinals, k)
          THEN /\ pc' = "undefined"
               /\ UNCHANGED <<stack, k, oob, ordinals, outfile, passed, notice>>
          ELSE LET moved == Store(ordinals, k, ordinals[k + 1] - 1)
                   home == moved[k + 1] = k
               IN  /\ ordinals' = IF home THEN moved ELSE BringUp(moved, k)
                   /\ k' = IF home THEN k ELSE 0
                   /\ IF LoopAgain(ordinals', k', EDGE_COUNT)
                         THEN /\ WriteGraph(ordinals', "mg_home")
                              /\ notice' = notice
                         ELSE /\ WriteGraph(ordinals', Return)
                              /\ notice' = (pc' # "undefined")
    /\ UNCHANGED <<fn, entered, err, VERTEX_COUNT, EDGE_COUNT, mcVars, ggVars,
                   stVars>>

NextGraphs == MG_Check \/ MG_Init \/ MG_Home \/ MG_Scan \/ MG_Move

InitGraphs ==
    /\ fn = "make_graphs"
    /\ pc = "mg_check"
    /\ VERTEX_COUNT \in 2 .. MaxVertex
    /\ EDGE_COUNT \in 1 .. maxEdgeCount + 1
    /\ ordinals = <<>> /\ outfile = <<>> /\ passed = <<>> /\ notice = FALSE
    /\ IdleEnumerator /\ IdleComb /\ IdleGen /\ IdleTree

(***************************************************************************)
(* graph_generation.                                                       *)
(***************************************************************************)
\* "Clear output file" and the start of the loops.
GG_Start ==
    /\ pc = "gg_start"
    /\ outfile' = <<>>
    /\ v' = 2
    /\ e' = 1
    /\ pc' = IF v' <= n THEN "gg_call" ELSE "done"
    /\ UNCHANGED <<fn, enVars, mcVars, VERTEX_COUNT, EDGE_COUNT, ordinals,
                   passed, notice, n, stVars>>

\* make_graphs( v, e ): a new frame, with cells that have not been read.
GG_Call ==
    /\ pc = "gg_call"
    /\ VERTEX_COUNT' = v
    /\ EDGE_COUNT' = e
    /\ ordinals' = <<>>
    /\ k' = 0
    /\ stack' = Unread
    /\ passed' = <<>>
    /\ notice' = FALSE
    /\ entered' = FALSE
    /\ pc' = "mg_check"
    /\ UNCHANGED <<fn, oob, err, mcVars, outfile, ggVars, stVars>>

\* e++ and, at the end of the inner loop, v++.
GG_Next ==
    /\ pc = "gg_next"
    /\ IF e + 1 <= triangle_number(v - 1)
          THEN /\ e' = e + 1
               /\ v' = v
               /\ pc' = "gg_call"
          ELSE /\ e' = 1
               /\ v' = v + 1
               /\ pc' = IF v' <= n THEN "gg_call" ELSE "done"
    /\ UNCHANGED <<fn, enVars, mcVars, mgVars, n, stVars>>

NextGen == GG_Start \/ GG_Call \/ GG_Next \/ NextGraphs

InitGen ==
    /\ fn = "graph_generation"
    /\ pc = "gg_start"
    /\ n \in 3 .. MaxGenerate
    /\ v = 0 /\ e = 0
    /\ IdleEnumerator /\ IdleComb /\ IdleGraphs /\ IdleTree

SpecGen == InitGen /\ [][NextGen]_vars

(***************************************************************************)
(* spanning_tree, create_graph, min_incident.                              *)
(***************************************************************************)
\* The weights an entry of input.txt can have, besides 0 (no edge).
Weights == (1 .. MaxWeight) \cup {INT_MAX}

\* The entries create_graph keeps: row j, column i with i >= j.
UpperPairs(V) == {ji \in (0 .. V - 1) \X (0 .. V - 1) : ji[2] >= ji[1]}

\* input.txt: the vertex count and a symmetric matrix of V x V integers.
InputOf(V, S, wt) ==
    [vertexCount |-> V,
     cells |-> [ji \in (0 .. V - 1) \X (0 .. V - 1) |->
                  LET up == IF ji[2] >= ji[1] THEN ji ELSE <<ji[2], ji[1]>>
                  IN  IF up \in S THEN wt[up] ELSE 0]]

\* create_graph: the entries are read row by row (j), column by column (i);
\* entry number p is row p \div V, column p % V.
RECURSIVE ReadEdges(_, _, _)
ReadEdges(V, cells, p) ==
    IF p = V * V THEN <<>>
    ELSE LET j == p \div V
             i == p % V
             x == cells[<<j, i>>]
         IN  (IF i >= j /\ x # 0 THEN <<[u |-> i, v |-> j, w |-> x]>> ELSE <<>>)
                 \o ReadEdges(V, cells, p + 1)

create_graph(in) == ReadEdges(in.vertexCount, in.cells, 0)

\* The edges of GG with exactly one end in the frontier (uMatch+vMatch == 1),
\* by their index in GG.
BoundaryEdges(GG, frontier) ==
    {i \in 0 .. Len(GG) - 1 :
        LET uMatch == \E j \in 1 .. Len(frontier) : GG[i + 1].u = frontier[j]
            vMatch == \E j \in 1 .. Len(frontier) : GG[i + 1].v = frontier[j]
        IN  Digit(uMatch) + Digit(vMatch) = 1}

\* min_incident before its loop.
MinStart == [minIndex |-> 0, minWeight |-> INT_MAX, result_uMatch |-> FALSE]

\* The loop of min_incident from edge i on.
RECURSIVE MinScan(_, _, _, _)
MinScan(GG, frontier, i, acc) ==
    IF i >= Len(GG) THEN acc
    ELSE LET uMatch == \E j \in 1 .. Len(frontier) : GG[i + 1].u = frontier[j]
             vMatch == \E j \in 1 .. Len(frontier) : GG[i + 1].v = frontier[j]
         IN  IF Digit(uMatch) + Digit(vMatch) = 1 /\ GG[i + 1].w < acc.minWeight
                THEN MinScan(GG, frontier, i + 1,
                             [minIndex |-> i, minWeight |-> GG[i + 1].w,
                              result_uMatch |-> uMatch])
                ELSE MinScan(GG, frontier, i + 1, acc)

\* The two ends taken for each other.
NewVertexSwapped(edge, result_uMatch) ==
    IF result_uMatch THEN edge.u ELSE edge.v

\* "If u already exists in T, then add v, otherwise add u".
NewVertex(edge, result_uMatch) == IF result_uMatch THEN edge.v ELSE edge.u

\* min_incident: the index it returns and the vertex it appends to vT.
min_incident(GG, frontier) ==
    LET r == MinScan(GG, frontier, 0, MinStart)
    IN  [index |-> r.minIndex,
         vertex |-> NewVertex(GG[r.minIndex + 1], r.result_uMatch)]

\* a + b in a 32-bit int.
Add32(a, b) ==
    IF a > 0 /\ b > 0 /\ a > INT_MAX - b
       THEN (a - INT_MAX - 1) + (b - INT_MAX - 1)
    ELSE IF a < 0 /\ b < 0 /\ a < (-INT_MAX - 1) - b
       THEN (a + INT_MAX + 1) + (b + INT_MAX + 1)
    ELSE a + b

\* The loop test with != for <.
ST_ContinueNotEqual(size, count) == size # count - 1

\* "while ( T.size() < vertexCount-1 )", vertexCount being unsigned.
ST_Continue(size, count) == IF count = 0 THEN TRUE ELSE size < count - 1

ST_CreateGraph ==
    /\ pc = "st_read"
    /\ vertexCount' = input.vertexCount
    /\ G' = create_graph(input)
    /\ pc' = "st_seed"
    /\ UNCHANGED <<fn, enVars, mcVars, mgVars, ggVars, input, T, vT,
                   totalWeight, min_incident_index, boundary>>

\* vT.push_back( G[0].getU() ): G[0] of an empty vector is undefined.
ST_Seed ==
    /\ pc = "st_seed"
    /\ IF G = <<>>
          THEN /\ pc' = "undefined"
               /\ vT' = vT
          ELSE /\ vT' = <<G[1].u>>
               /\ pc' = "st_prim"
    /\ UNCHANGED <<fn, enVars, mcVars, mgVars, ggVars, input, vertexCount, G,
                   T, totalWeight, min_incident_index, boundary>>

\* One round of the do-loop of Prim's algorithm.
ST_Prim ==
    /\ pc = "st_prim"
    /\ Len(T) < MaxIterations
    /\ LET r == min_incident(G, vT)
       IN  /\ boundary' = BoundaryEdges(G, vT)
           /\ min_incident_index' = r.index
           /\ vT' = Append(vT, r.vertex)
           /\ T' = Append(T, G[r.index + 1])
           /\ totalWeight' = Add32(totalWeight, G[r.index + 1].w)
           /\ pc' = IF ST_Continue(Len(T'), vertexCount)
                       THEN "st_prim" ELSE "done"
    /\ UNCHANGED <<fn, enVars, mcVars, mgVars, ggVars, input, vertexCount, G>>

NextTree == ST_CreateGraph \/ ST_Seed \/ ST_Prim

InitTree ==
    /\ fn = "spanning_tree"
    /\ pc = "st_read"
    /\ \E V \in 1 .. MaxVertexCount :
          \E S \in {X \in SUBSET UpperPairs(V) : Cardinality(X) <= MaxEdges} :
             \E wt \in [S -> Weights] : input = InputOf(V, S, wt)
    /\ vertexCount = 0 /\ G = <<>> /\ T = <<>> /\ vT = <<>>
    /\ totalWeight = 0 /\ min_incident_index = 0 /\ boundary = {}
    /\ IdleEnumerator /\ IdleComb /\ IdleGraphs /\ IdleGen

SpecTree == InitTree /\ [][NextTree]_vars

\* The statements of spanning_tree run one after the other to the end.
FairSpecTree == SpecTree /\ WF_vars(NextTree)

(***************************************************************************)
(* The enumerators on their own: make_combinations( input_count,           *)
(* combination_count ) and make_graphs( VERTEX_COUNT, EDGE_COUNT ).        *)
(***************************************************************************)
Init == InitComb \/ InitGraphs

Next == NextComb \/ NextGraphs

Spec == Init /\ [][Next]_vars
(***************************************************************************)
(* Claims about the enumerator.                                            *)
(***************************************************************************)
\* What the running enumerator has yielded, of how many items, how many
\* at a time.
Yielded == IF fn = "make_combinations" THEN cout ELSE passed

Total == IF fn = "make_combinations" THEN input_count ELSE maxEdgeCount

Count == IF fn = "make_combinations" THEN combination_count ELSE EDGE_COUNT

Range(s) == {s[i] : i \in 1 .. Len(s)}

RECURSIVE Choose(_, _)
Choose(a, b) ==
    IF b = 0 THEN 1 ELSE IF a = 0 THEN 0
    ELSE Choose(a - 1, b - 1) + Choose(a - 1, b)

StrictlyIncreasing(s) == \A i \in 1 .. Len(s) - 1 : s[i] < s[i + 1]

\* a is below b, comparing from the highest position down.
ColexLess(a, b) ==
    \E p \in 1 .. Len(a) : a[p] < b[p] /\ \A q \in p + 1 .. Len(a) : a[q] = b[q]

\* C1: for n > m >= 1 every array the enumerator (make_combinations, and
\* the loop of make_graphs) yields has m strictly increasing entries in
\* [0, n), no array is yielded twice, and when the run is over exactly
\* C(n, m) arrays have been yielded, one for every m-subset of {0..n-1}.
C1_EveryCombinationOnce ==
    (Total > Count /\ Count >= 1) =>
        /\ \A i \in 1 .. Len(Yielded) :
              /\ Len(Yielded[i]) = Count
              /\ StrictlyIncreasing(Yielded[i])
              /\ Range(Yielded[i]) \subseteq 0 .. Total - 1
        /\ \A i, j \in 1 .. Len(Yielded) : i # j => Yielded[i] # Yielded[j]
        /\ pc = "done" =>
              /\ Len(Yielded) = Choose(Total, Count)
              /\ {Range(Yielded[i]) : i \in 1 .. Len(Yielded)} =
                     {S \in SUBSET (0 .. Total - 1) : Cardinality(S) = Count}

\* A run of make_combinations(6, 3) that is over, with its 20 arrays.
C1_Witness ==
    /\ fn = "make_combinations" /\ pc = "done"
    /\ input_count = 6 /\ combination_count = 3
    /\ Len(cout) = 20

\* C2: for n > m >= 1 the first array yielded is [n-m, ..., n-1], every
\* array yielded is below the one before it (compared from the highest
\* position down), and when the run is over the last one is [0, ..., m-1].
C2_DecreasingFromMaxToMin ==
    (Total > Count /\ Count >= 1) =>
        /\ Len(Yielded) >= 1 =>
              Yielded[1] = [j \in 1 .. Count |-> Total - Count + j - 1]
        /\ \A i \in 1 .. Len(Yielded) - 1 :
              ColexLess(Yielded[i + 1], Yielded[i])
        /\ pc = "done" =>
              /\ Len(Yielded) >= 1
              /\ Yielded[Len(Yielded)] = [j \in 1 .. Count |-> j - 1]

\* A run of make_combinations(5, 3) that is over: it has brought the
\* children up ([0,1,4] is followed by [1,2,3]) on its way.
C2_Witness ==
    /\ fn = "make_combinations" /\ pc = "done"
    /\ input_count = 5 /\ combination_count = 3
    /\ \E i \in 1 .. Len(cout) - 1 :
          cout[i] = <<0, 1, 4>> /\ cout[i + 1] = <<1, 2, 3>>

\* C7: whenever make_combinations is called with n > m >= 1 violated
\* (n <= m, or m < 1), it reports the error and yields nothing: nothing is
\* printed and the enumeration loop is never entered.
C7_InvalidSizeIsRejected ==
    ( /\ fn = "make_combinations"
      /\ ~(input_count > combination_count /\ combination_count >= 1)
      /\ pc # "mc_check" ) =>
        /\ err
        /\ cout = <<>>
        /\ ~entered
        /\ pc = "done"

(***************************************************************************)
(* Claims about the generated matrices.                                    *)
(***************************************************************************)
\* The slot of the vertex pair (row r, column c), r > c, counting the pairs
\* column by column.
SlotOfPair(r, c, V) == c * V - triangle_number(c) + (r - c - 1)

\* The matrix of V vertices with the edges of the slots in S.
MatrixOf(S, V) ==
    [a \in 1 .. V |->
        [b \in 1 .. V |->
            IF a = b THEN 0
            ELSE IF a < b
                 THEN Digit(SlotOfPair(b - 1, a - 1, V) \in S)
                 ELSE Digit(SlotOfPair(a - 1, b - 1, V) \in S)]]

Ones(M, V) ==
    Cardinality({ab \in (1 .. V) \X (1 .. V) : ab[1] < ab[2] /\ M[ab[1]][ab[2]] = 1})

\* C5: every matrix make_graphs(vertexCount, edgeCount) writes, for
\* 1 <= edgeCount <= triangle(vertexCount-1), is symmetric, has a zero
\* diagonal and exactly edgeCount ones above the diagonal, at the vertex
\* pairs whose slot is in the combination passed to write_graph.
C5_MatrixOfTheCombination ==
    (fn = "make_graphs" /\ EDGE_COUNT >= 1 /\ EDGE_COUNT <= maxEdgeCount) =>
        \A i \in 1 .. Len(outfile) :
            LET M == outfile[i].lines
                V == outfile[i].VERTEX
            IN  /\ V = VERTEX_COUNT
                /\ \A a, b \in 1 .. V : M[a][b] = M[b][a]
                /\ \A a \in 1 .. V : M[a][a] = 0
                /\ Ones(M, V) = EDGE_COUNT
                /\ M = MatrixOf(Range(passed[i]), V)

\* The matrices of vv vertices in generated_graphs.txt.
Generated(vv) ==
    {i \in 1 .. Len(outfile) : outfile[i].VERTEX = vv}

RECURSIVE Pow2(_)
Pow2(x) == IF x = 0 THEN 1 ELSE 2 * Pow2(x - 1)

\* C6: when graph_generation is over there are, for each vertex count vv
\* with t = triangle(vv-1), exactly 2^t - 1 matrices of vv vertices in the
\* file, one for each non-empty set of slots and none twice; and the call
\* make_graphs(vv, t) writes one matrix, the complete graph, and returns
\* without entering the loop.
C6_EveryNonEmptyGraphOnce ==
    /\ (fn = "graph_generation" /\ pc = "done") =>
          \A vv \in 2 .. n :
              LET t == triangle_number(vv - 1)
              IN  /\ Cardinality(Generated(vv)) = Pow2(t) - 1
                  /\ {outfile[i].lines : i \in Generated(vv)} =
                        {MatrixOf(S, vv) : S \in (SUBSET (0 .. t - 1)) \ {{}}}
    /\ (fn = "graph_generation" /\ pc = "gg_next"
            /\ EDGE_COUNT = maxEdgeCount) =>
          /\ Len(passed) = 1
          /\ ~entered
          /\ ~notice
          /\ outfile[Len(outfile)].lines =
                 MatrixOf(0 .. maxEdgeCount - 1, VERTEX_COUNT)
(***************************************************************************)
(* Claims about the spanning tree.                                         *)
(***************************************************************************)
Vertices == 0 .. vertexCount - 1

\* The vertices joined to vertex 0 by the edges of GG, in at most
\* vertexCount rounds.
RECURSIVE Reach(_, _, _)
Reach(GG, R, rounds) ==
    IF rounds = 0 THEN R
    ELSE Reach(GG,
               R \cup {GG[i].u : i \in {x \in 1 .. Len(GG) : GG[x].v \in R}}
                 \cup {GG[i].v : i \in {x \in 1 .. Len(GG) : GG[x].u \in R}},
               rounds - 1)

Spans(GG) == Reach(GG, {0}, vertexCount) = Vertices

Connected == Spans(G)

RECURSIVE SumWeights(_)
SumWeights(edges) ==
    IF edges = <<>> THEN 0
    ELSE Add32(SumWeights(SubSeq(edges, 1, Len(edges) - 1)),
               edges[Len(edges)].w)

RECURSIVE SeqOfSet(_)
SeqOfSet(S) ==
    IF S = {} THEN <<>>
    ELSE LET x == CHOOSE y \in S : TRUE IN <<G[x]>> \o SeqOfSet(S \ {x})

\* The sets of vertexCount-1 edges of G that join all the vertices.
SpanningTrees ==
    {S \in SUBSET (1 .. Len(G)) :
        Cardinality(S) = vertexCount - 1 /\ Spans(SeqOfSet(S))}

MinimumSpanningWeight ==
    LET totals == {SumWeights(SeqOfSet(S)) : S \in SpanningTrees}
    IN  CHOOSE x \in totals : \A y \in totals : x <= y

Touched(edges) ==
    {edges[i].u : i \in 1 .. Len(edges)} \cup {edges[i].v : i \in 1 .. Len(edges)}

Finished == fn = "spanning_tree" /\ pc = "done"

\* An iteration of the Prim loop has just run.
Iterated == fn = "spanning_tree" /\ pc \in {"st_prim", "done"} /\ Len(T) >= 1

\* vT before the last iteration, and the vertex the iteration appended.
Frontier == SubSeq(vT, 1, Len(vT) - 1)

Appended == vT[Len(vT)]

Selected == G[min_incident_index + 1]

\* C3: for a connected graph the tree built by the Prim loop touches every
\* vertex, and totalWeight is the least total weight of a spanning tree.
C3_MinimumSpanningTree ==
    (Finished /\ Connected) =>
        /\ Touched(T) = Vertices
        /\ totalWeight = MinimumSpanningWeight

\* C4: for a connected graph of vertexCount >= 1 vertices (the one-vertex
\* graph included) the tree holds vertexCount - 1 edges when the loop is
\* over.
C4_TreeHasVMinusOneEdges ==
    (Finished /\ Connected /\ vertexCount >= 1) => Len(T) = vertexCount - 1

\* C8: in a call of min_incident with a boundary edge, the index returned
\* is that of a boundary edge of least weight, the lowest such index, and
\* the vertex appended to vT is the end of that edge that was not in vT:
\* vT gains one new vertex and no duplicate.
C8_LeastBoundaryEdge ==
    (Iterated /\ boundary # {}) =>
        /\ min_incident_index \in boundary
        /\ \A b \in boundary : Selected.w <= G[b + 1].w
        /\ \A b \in boundary :
              G[b + 1].w = Selected.w => min_incident_index <= b
        /\ Appended \in {Selected.u, Selected.v}
        /\ Appended \notin Range(Frontier)
        /\ Cardinality(Range(vT)) = Cardinality(Range(Frontier)) + 1

\* C9: in an iteration with no boundary edge min_incident returns 0: G[0],
\* not a boundary edge, is appended to the tree, its weight is added to
\* totalWeight, its first vertex is appended to the frontier, where it
\* already was, and no error is raised.
C9_NoBoundaryEdgeSelectsFirst ==
    (Iterated /\ boundary = {}) =>
        /\ min_incident_index = 0
        /\ T[Len(T)] = G[1]
        /\ totalWeight = SumWeights(T)
        /\ Appended = G[1].u
        /\ Appended \in Range(Frontier)
        /\ ~err

\* The second iteration on a graph of three vertices found no boundary
\* edge and selected G[0] a second time.
C9_Witness ==
    /\ Finished /\ vertexCount = 3 /\ boundary = {}
    /\ Len(T) = 2 /\ T[1] = T[2]

\* C10: for a graph with an edge and vertexCount >= 1 the Prim loop ends:
\* each iteration appends one edge to the tree, the loop never reaches the
\* cap of the model, and the function gets to its end.
C10_PrimLoopTerminates ==
    /\ [][pc = "st_prim" => Len(T') = Len(T) + 1]_vars
    /\ [](pc = "st_prim" => Len(T) < MaxIterations)
    /\ (pc = "st_prim" /\ Len(G) >= 1 /\ vertexCount >= 1) ~> (pc = "done")

\* The loop has ended on a graph of three vertices without an edge between
\* vertex 2 and the others: no iteration after the first had a boundary edge.
C10_Witness ==
    /\ Finished /\ vertexCount = 3 /\ ~Connected
    /\ Len(T) = 2 /\ Len(G) >= 2

\* C11: during a run of make_graphs(vertexCount, edgeCount) with
\* 1 <= edgeCount <= triangle(vertexCount-1), no read of the combination
\* array leaves [0, edgeCount): neither the "next k that is not home" scan
\* of make_graphs reads ordinals[edgeCount], nor the edge-set scan of
\* write_graph reads indices[edgeCount].
C11_ReadsStayInside ==
    (fn = "make_graphs" /\ EDGE_COUNT >= 1 /\ EDGE_COUNT <= maxEdgeCount) =>
        /\ "scan" \notin oob
        /\ "write_graph" \notin oob
====
